---- MODULE Spec2Model ----
(***************************************************************************)
(* Model of pyembed/src/config.rs: the configuration value of an embedded  *)
(* Python interpreter (PythonConfig), its Default implementation, the      *)
(* enums it aggregates and the CString-typed members (PythonRunMode::File  *)
(* path, ExtensionModule name) whose construction is the only fallible     *)
(* step.  Strings are sequences of Unicode code points, CStrings are the   *)
(* UTF-8 bytes followed by the NUL terminator.                             *)
(***************************************************************************)
EXTENDS Integers, Sequences, FiniteSets, TLC

VARIABLES cfg, windows, base, touched, last, pushed, filePath

vars == <<cfg, windows, base, touched, last, pushed, filePath>>

(* ------------------------------ bounds --------------------------------- *)
MaxLen == 2
MaxNameLen == 2
MaxExt == 2
MaxTouched == 2

(* ------------------------------ inputs --------------------------------- *)
\* NUL, 'a' (1 byte), U+00E9 (2 bytes), U+20AC (3 bytes)
CodePoints == {0, 97, 233, 8364}

Strings(n) == UNION {[1..k -> CodePoints] : k \in 0..n}

\* extension names: NUL, 'a', U+00E9
NameCodePoints == {0, 97, 233}

Names(n) == UNION {[1..k -> NameCodePoints] : k \in 0..n}

InitFuncs == {"PyInit_a", "PyInit_b"}

HasNul(s) == \E i \in 1..Len(s) : s[i] = 0

(* ------------------------- String / CString ---------------------------- *)
Utf8EncodeChar(cp) ==
  IF cp < 128 THEN <<cp>>
  ELSE IF cp < 2048 THEN <<192 + (cp \div 64), 128 + (cp % 64)>>
  ELSE <<224 + (cp \div 4096), 128 + ((cp \div 64) % 64), 128 + (cp % 64)>>

RECURSIVE Utf8Encode(_)
Utf8Encode(s) ==
  IF s = <<>> THEN <<>> ELSE Utf8EncodeChar(Head(s)) \o Utf8Encode(Tail(s))

RECURSIVE Utf8Decode(_)
Utf8Decode(b) ==
  IF b = <<>> THEN <<>>
  ELSE LET h == Head(b) IN
    IF h < 128 THEN <<h>> \o Utf8Decode(Tail(b))
    ELSE IF h < 224 /\ Len(b) >= 2
      THEN <<(h - 192) * 64 + (b[2] - 128)>> \o Utf8Decode(SubSeq(b, 3, Len(b)))
    ELSE IF Len(b) >= 3
      THEN <<(h - 224) * 4096 + (b[2] - 128) * 64 + (b[3] - 128)>>
             \o Utf8Decode(SubSeq(b, 4, Len(b)))
    ELSE <<65533>>

\* mutant: no interior-NUL check (the bytes are taken as they are)
CStringNewUnchecked(bytes) == [ok |-> TRUE, inner |-> bytes \o <<0>>, err |-> "none"]

\* CString::new: an interior NUL byte is an error, otherwise the bytes are
\* stored followed by the terminator
CStringNew(bytes) ==
  IF \E i \in 1..Len(bytes) : bytes[i] = 0
    THEN [ok |-> FALSE, inner |-> <<>>, err |-> "NulError"]
    ELSE [ok |-> TRUE, inner |-> bytes \o <<0>>, err |-> "none"]

\* mutant: the terminator is not stripped (as_bytes_with_nul)
CStringBytesWithNul(inner) == inner

\* the bytes of a CString without the trailing terminator
CStringBytes(inner) == SubSeq(inner, 1, Len(inner) - 1)

\* converting the stored native string back to a display string
CStringToStr(inner) == Utf8Decode(CStringBytes(inner))

(* ------------------------------ enums ---------------------------------- *)
PythonRawAllocator == {"Jemalloc", "Rust", "System"}

RunNone == [tag |-> "None"]

PlainRunModes ==
  {RunNone, [tag |-> "Repl"],
   [tag |-> "Module", module |-> "myapp"], [tag |-> "Module", module |-> "other"],
   [tag |-> "Eval", code |-> "print(1)"]}

TerminfoResolution ==
  {[tag |-> "Dynamic"], [tag |-> "None"], [tag |-> "Static", dirs |-> "/usr/share/terminfo"]}

OptNone == [tag |-> "None"]

OptStrings == {OptNone, [tag |-> "Some", val |-> "utf-8"]}

\* PythonRunMode::File { path: CString } built from a path string
NewFile(path) ==
  LET r == CStringNew(Utf8Encode(path)) IN
  IF r.ok THEN [ok |-> TRUE, err |-> "none", value |-> [tag |-> "File", path |-> r.inner]]
          ELSE [ok |-> FALSE, err |-> r.err, value |-> RunNone]

\* mutant: the name is cut at its first NUL byte instead of being refused
NewExtensionModuleTruncating(name, f) ==
  LET b == Utf8Encode(name)
      n == IF HasNul(b) THEN (CHOOSE i \in 1..Len(b) : b[i] = 0 /\ \A j \in 1..(i-1) : b[j] # 0) - 1
           ELSE Len(b)
  IN [ok |-> TRUE, err |-> "none",
      value |-> [name |-> SubSeq(b, 1, n) \o <<0>>, init_func |-> f]]

\* ExtensionModule { name: CString, init_func } built from a name string
NewExtensionModule(name, f) ==
  LET r == CStringNew(Utf8Encode(name)) IN
  IF r.ok THEN [ok |-> TRUE, err |-> "none", value |-> [name |-> r.inner, init_func |-> f]]
          ELSE [ok |-> FALSE, err |-> r.err, value |-> [name |-> <<0>>, init_func |-> f]]

(* --------------------------- PythonConfig ------------------------------ *)
BoolFields ==
  {"use_custom_importlib", "filesystem_importer", "import_site", "import_user_site",
   "ignore_python_env", "inspect", "interactive", "isolated",
   "legacy_windows_fs_encoding", "legacy_windows_stdio", "write_bytecode",
   "unbuffered_stdio", "parser_debug", "quiet", "use_hash_seed", "argvb",
   "sys_frozen", "sys_meipass"}

LevelFields == {"opt_level", "bytes_warning", "verbose"}

OptionFields == {"standard_io_encoding", "standard_io_errors", "write_modules_directory_env"}

Fields ==
  BoolFields \cup LevelFields \cup OptionFields \cup
  {"sys_paths", "packed_resources", "extra_extension_modules", "raw_allocator",
   "terminfo_resolution", "run"}

\* the values an override assigns to a field of the given type
FieldValues(f) ==
  CASE f \in BoolFields -> BOOLEAN
    [] f \in LevelFields -> {0, 1, 2}
    [] f \in OptionFields -> OptStrings
    [] f = "sys_paths" -> {<<>>, <<"$ORIGIN/lib">>}
    [] f = "packed_resources" -> {<<>>, <<80, 89>>}
    [] f = "raw_allocator" -> PythonRawAllocator
    [] f = "terminfo_resolution" -> TerminfoResolution
    [] f = "run" -> PlainRunModes

\* fields overridden by plain assignment of a value
AssignedFields == Fields \ {"extra_extension_modules"}

\* mutant: ignore_python_env defaults to false like the other switches
DefaultSwitchesAllFalse == [f \in BoolFields |-> FALSE]

\* the boolean switches of default()
DefaultSwitches == [f \in BoolFields |-> (f = "ignore_python_env")]

\* mutant: verbose starts at 1
DefaultLevelsVerbose ==
  [opt_level |-> 0, bytes_warning |-> 0, verbose |-> 1,
   sys_paths |-> <<>>, packed_resources |-> <<>>, extra_extension_modules |-> <<>>,
   terminfo_resolution |-> [tag |-> "Dynamic"]]

\* the numeric levels, the collections and the terminfo policy of default()
DefaultLevels ==
  [opt_level |-> 0, bytes_warning |-> 0, verbose |-> 0,
   sys_paths |-> <<>>, packed_resources |-> <<>>, extra_extension_modules |-> <<>>,
   terminfo_resolution |-> [tag |-> "Dynamic"]]

\* mutant: stdio encoding forced to utf-8 on Windows
DefaultOptionalsForced(w) ==
  [standard_io_encoding |-> IF w THEN [tag |-> "Some", val |-> "utf-8"] ELSE OptNone,
   standard_io_errors |-> OptNone, write_modules_directory_env |-> OptNone]

\* the optional strings of default()
DefaultOptionals(w) ==
  [standard_io_encoding |-> OptNone, standard_io_errors |-> OptNone,
   write_modules_directory_env |-> OptNone]

\* mutant: the global Rust allocator where jemalloc is not used
DefaultRawAllocatorRust(w) == IF w THEN "Rust" ELSE "Jemalloc"

\* raw_allocator of default(): cfg!(windows) selects System, else Jemalloc
DefaultRawAllocator(w) == IF w THEN "System" ELSE "Jemalloc"

\* PythonConfig::default() on a target where cfg!(windows) = w
Default(w) ==
  LET s == DefaultSwitches
      l == DefaultLevels
      o == DefaultOptionals(w)
  IN [f \in Fields |->
       CASE f \in BoolFields -> s[f]
         [] f \in DOMAIN l -> l[f]
         [] f \in OptionFields -> o[f]
         [] f = "raw_allocator" -> DefaultRawAllocator(w)
         [] f = "run" -> RunNone]

\* mutant: putting the interpreter in interactive mode also turns inspect on
AssignCoupled(c, f, v) ==
  IF f = "interactive" /\ v = TRUE
    THEN [c EXCEPT ![f] = v, !["inspect"] = TRUE]
    ELSE [c EXCEPT ![f] = v]

\* assignment to one public field of the struct
Assign(c, f, v) == [c EXCEPT ![f] = v]

\* mutant: a registration whose name is already present is dropped
PushDedup(list, e) ==
  IF \E i \in 1..Len(list) : list[i].name = e.name THEN list ELSE Append(list, e)

\* mutant: the registration is entered twice
PushTwice(list, e) == Append(Append(list, e), e)

\* Vec::push on extra_extension_modules
Push(list, e) == Append(list, e)

\* the last operation: its input, its outcome and, for a conversion, its output
Op(op, arg, func, ok, err, out) ==
  [op |-> op, arg |-> arg, func |-> func, ok |-> ok, err |-> err, out |-> out]

(* ------------------------------ state ---------------------------------- *)
Init ==
  /\ windows \in BOOLEAN
  /\ cfg = Default(windows)
  /\ base = cfg
  /\ touched = {}
  /\ last = Op("init", <<>>, "", TRUE, "none", <<>>)
  /\ pushed = <<>>
  /\ filePath = <<>>

\* a fresh PythonConfig::default() replaces the value being built
CallDefault ==
  /\ cfg' = Default(windows)
  /\ base' = cfg'
  /\ touched' = {}
  /\ last' = Op("default", <<>>, "", TRUE, "none", <<>>)
  /\ pushed' = <<>>
  /\ filePath' = <<>>
  /\ UNCHANGED windows

\* config.<f> = v
SetField(f, v) ==
  /\ Cardinality(touched \cup {f}) <= MaxTouched
  /\ cfg' = Assign(cfg, f, v)
  /\ touched' = touched \cup {f}
  /\ last' = Op("set", <<>>, "", TRUE, "none", <<>>)
  /\ filePath' = IF f = "run" THEN <<>> ELSE filePath
  /\ UNCHANGED <<windows, base, pushed>>

\* config.run = PythonRunMode::File { path: CString::new(path)? }
SetRunFile(path) ==
  /\ Cardinality(touched \cup {"run"}) <= MaxTouched
  /\ LET r == NewFile(path) IN
       /\ last' = Op("file", path, "", r.ok, r.err, <<>>)
       /\ IF r.ok
            THEN /\ cfg' = Assign(cfg, "run", r.value)
                 /\ touched' = touched \cup {"run"}
                 /\ filePath' = path
            ELSE UNCHANGED <<cfg, touched, filePath>>
  /\ UNCHANGED <<windows, base, pushed>>

\* config.extra_extension_modules.push(ExtensionModule { name: CString::new(name)?, init_func: f })
PushExtension(name, f) ==
  /\ Len(cfg.extra_extension_modules) < MaxExt
  /\ Cardinality(touched \cup {"extra_extension_modules"}) <= MaxTouched
  /\ LET r == NewExtensionModule(name, f) IN
       /\ last' = Op("ext", name, f, r.ok, r.err, <<>>)
       /\ IF r.ok
            THEN /\ cfg' = Assign(cfg, "extra_extension_modules",
                                  Push(cfg.extra_extension_modules, r.value))
                 /\ touched' = touched \cup {"extra_extension_modules"}
                 /\ pushed' = Append(pushed, [name |-> name, init_func |-> f])
            ELSE UNCHANGED <<cfg, touched, pushed>>
  /\ UNCHANGED <<windows, base, filePath>>

\* the path of a File run mode converted back to a display string
DisplayRunPath ==
  /\ cfg.run.tag = "File"
  /\ last' = Op("display", filePath, "", TRUE, "none", CStringToStr(cfg.run.path))
  /\ UNCHANGED <<cfg, windows, base, touched, pushed, filePath>>

OverrideField == \E f \in AssignedFields : \E v \in FieldValues(f) : SetField(f, v)

OverrideRunFile == \E p \in Strings(1) : SetRunFile(p)

AddExtension == \E n \in Names(1) : \E f \in {"PyInit_a"} : PushExtension(n, f)

Next == CallDefault \/ OverrideField \/ OverrideRunFile \/ AddExtension \/ DisplayRunPath

Spec == Init /\ [][Next]_vars

\* construction of PythonRunMode::File over all paths up to MaxLen
ConstructRunFile == \E p \in Strings(MaxLen) : SetRunFile(p)

NextFile == CallDefault \/ ConstructRunFile \/ DisplayRunPath

SpecFile == Init /\ [][NextFile]_vars

\* construction of ExtensionModule over all names up to MaxNameLen
RegisterExtension == \E n \in Names(MaxNameLen) : \E f \in InitFuncs : PushExtension(n, f)

NextExt == CallDefault \/ RegisterExtension

SpecExt == Init /\ [][NextExt]_vars

(* ----------------------------- properties ------------------------------ *)
\* the configuration is exactly what default() returned
Fresh == last.op \in {"init", "default"}

Exts == cfg.extra_extension_modules

\* C1: default() returns run = PythonRunMode::None, and raw_allocator =
\* System on the Windows target and Jemalloc on every other target; Rust is
\* never the default allocator.
C1_DefaultRunAndAllocator ==
  Fresh =>
    /\ cfg.run = [tag |-> "None"]
    /\ windows => cfg.raw_allocator = "System"
    /\ ~windows => cfg.raw_allocator = "Jemalloc"
    /\ cfg.raw_allocator # "Rust"

C1_Witness == last.op = "default" /\ windows /\ cfg.raw_allocator = "System"

C2_FalseSwitches ==
  {"use_custom_importlib", "filesystem_importer", "import_site", "import_user_site",
   "inspect", "interactive", "isolated", "legacy_windows_fs_encoding",
   "legacy_windows_stdio", "write_bytecode", "unbuffered_stdio", "parser_debug",
   "quiet", "use_hash_seed", "argvb", "sys_frozen", "sys_meipass"}

\* C2: in the value default() returns every boolean switch is false except
\* ignore_python_env, which is true, on every target.
C2_DefaultSwitches ==
  Fresh =>
    /\ \A f \in C2_FalseSwitches : cfg[f] = FALSE
    /\ cfg.ignore_python_env = TRUE

C2_Witness == last.op = "default" /\ ~windows /\ cfg.ignore_python_env /\ ~cfg.isolated

\* C3: in the value default() returns opt_level, bytes_warning and verbose
\* are 0, sys_paths and extra_extension_modules are empty, packed_resources
\* is empty and terminfo_resolution is Dynamic.
C3_DefaultLevelsAndCollections ==
  Fresh =>
    /\ cfg.opt_level = 0 /\ cfg.bytes_warning = 0 /\ cfg.verbose = 0
    /\ cfg.sys_paths = <<>> /\ Exts = <<>>
    /\ cfg.packed_resources = <<>>
    /\ cfg.terminfo_resolution = [tag |-> "Dynamic"]

C3_Witness == last.op = "default" /\ cfg.verbose = 0 /\ Len(cfg.sys_paths) = 0

\* C10: in the value default() returns standard_io_encoding,
\* standard_io_errors and write_modules_directory_env are None on every
\* target; raw_allocator is the only field of default() that differs between
\* the targets.
C10_DefaultOptionals ==
  Fresh =>
    /\ cfg.standard_io_encoding = [tag |-> "None"]
    /\ cfg.standard_io_errors = [tag |-> "None"]
    /\ cfg.write_modules_directory_env = [tag |-> "None"]
    /\ \A f \in Fields \ {"raw_allocator"} : cfg[f] = Default(~windows)[f]
    /\ cfg.raw_allocator # Default(~windows).raw_allocator

C10_Witness ==
  last.op = "default" /\ windows /\ cfg.write_modules_directory_env.tag = "None"

\* C6: after any sequence of overrides of a defaulted configuration every
\* field that was not overridden still has the value default() gave it; in
\* particular after run = Module{myapp} and isolated = true,
\* ignore_python_env is true, sys_paths is empty and raw_allocator is the
\* platform default.
C6_OverridesPreserveOthers ==
  /\ \A f \in Fields \ touched : cfg[f] = base[f]
  /\ (touched = {"run", "isolated"} /\ cfg.run = [tag |-> "Module", module |-> "myapp"]
        /\ cfg.isolated)
       => /\ cfg.ignore_python_env = TRUE
          /\ cfg.sys_paths = <<>>
          /\ cfg.raw_allocator = IF windows THEN "System" ELSE "Jemalloc"

C6_Witness ==
  /\ touched = {"run", "isolated"}
  /\ cfg.run = [tag |-> "Module", module |-> "myapp"]
  /\ cfg.isolated /\ ~windows /\ cfg.raw_allocator = "Jemalloc"

\* C4: constructing PythonRunMode::File from a path with a NUL byte fails
\* (NulError) at construction, the configuration is left as it was, and no
\* File run mode holding such a path is ever in a configuration.
C4_NulPathRejected ==
  /\ [](/\ (last.op = "file" /\ HasNul(last.arg)) => (~last.ok /\ last.err = "NulError")
        /\ cfg.run.tag = "File" =>
             (~HasNul(filePath) /\ ~HasNul(CStringBytes(cfg.run.path))))
  /\ [][(last'.op = "file" /\ ~last'.ok) => cfg' = cfg]_vars

C4_Witness ==
  /\ last.op = "file" /\ ~last.ok /\ last.arg = <<97, 0>>
  /\ cfg.run.tag = "File"

\* C5: constructing PythonRunMode::File from a path without a NUL byte
\* succeeds, and converting the stored CString back to a string gives the
\* original path.
C5_PathRoundTrip ==
  /\ (last.op = "file" /\ ~HasNul(last.arg)) =>
       /\ last.ok
       /\ cfg.run.tag = "File"
       /\ CStringToStr(cfg.run.path) = last.arg
  /\ last.op = "display" => last.out = last.arg

C5_Witness == last.op = "display" /\ last.arg = <<8364, 233>> /\ last.out = <<8364, 233>>

\* C7: adding a registration whose name is already in
\* extra_extension_modules succeeds without error; the list holds every
\* registration added, duplicates included, in insertion order.
C7_DuplicateNamesAccepted ==
  /\ Len(Exts) = Len(pushed)
  /\ \A i \in 1..Len(pushed) :
       /\ i <= Len(Exts)
       /\ Exts[i].name = Utf8Encode(pushed[i].name) \o <<0>>
       /\ Exts[i].init_func = pushed[i].init_func
  /\ (last.op = "ext" /\ ~HasNul(last.arg)) => (last.ok /\ last.err = "none")

C7_Witness ==
  /\ Len(Exts) = 2 /\ last.op = "ext" /\ last.ok
  /\ Exts[1].name = Exts[2].name /\ Exts[1].init_func # Exts[2].init_func

\* C8: constructing an ExtensionModule fails (NulError) exactly when the
\* name contains a NUL byte; on success the registration holds the name and
\* the very entry point it was given.
C8_NulNameRejected ==
  last.op = "ext" =>
    /\ last.ok <=> ~HasNul(last.arg)
    /\ ~last.ok => last.err = "NulError"
    /\ last.ok =>
         /\ Len(Exts) >= 1
         /\ Exts[Len(Exts)].init_func = last.func
         /\ CStringToStr(Exts[Len(Exts)].name) = last.arg

C8_Witness ==
  /\ last.op = "ext" /\ ~last.ok /\ last.arg = <<233, 0>> /\ last.func = "PyInit_b"
  /\ Len(Exts) = 1

\* C9 as stated: in every reachable configuration the names in
\* extra_extension_modules are pairwise different.
C9_NamesUnique ==
  \A i, j \in 1..Len(Exts) : i # j => Exts[i].name # Exts[j].name

\* C9 amended: the names in extra_extension_modules are pairwise different
\* whenever the names the caller added are pairwise different; nothing else
\* makes them so.
C9_NamesUniqueIfAddedUnique ==
  (\A i, j \in 1..Len(pushed) : i # j => pushed[i].name # pushed[j].name)
    => C9_NamesUnique

C9_Witness ==
  /\ Len(Exts) = 2 /\ Exts[1].name # Exts[2].name
  /\ Exts[1].init_func = Exts[2].init_func
====
